---- MODULE Spec2Model ----
(***************************************************************************)
(* ApiProvider (samcli/commands/local/lib/api_provider.py): the shell that *)
(* normalises a template, picks the SAM or the CloudFormation API          *)
(* provider from the first recognised resource type, runs it over all      *)
(* resources into a fresh ApiCollector and keeps the resulting Api.        *)
(*                                                                         *)
(* A Python dict is modelled by the sequence of its items in insertion     *)
(* order; the key of the i-th item of a Resources mapping is LogicalId(i). *)
(* A dict with optional keys (a template, a resource, its Properties) is a *)
(* record whose DOMAIN holds the keys that are present.  An object is      *)
(* named by an integer identity drawn from the allocation counter nextId.  *)
(***************************************************************************)
EXTENDS Integers, Sequences, FiniteSets, TLC

\* ---------------------------------------------------------------- bounds
MaxResources == 3
MaxUseResources == 2
MaxConcResources == 1
MaxGetAll == 2

\* Two ApiProvider constructions whose steps may interleave.
Passes == {"p1", "p2"}

\* ------------------------------------------------------------ value types
None == "None"

\* A property value: a literal string, or an unresolved reference to a
\* template parameter.
Lit(s) == [kind |-> "lit", v |-> s]
RefParam(n) == [kind |-> "ref", v |-> n]
NoValue == [kind |-> "none", v |-> None]

\* dict.get(key, default)
get(d, key, default) == IF key \in DOMAIN d THEN d[key] ELSE default

EmptyDict == [k \in {} |-> None]

LogicalIds == <<"R1", "R2", "R3", "R4", "R5", "R6">>
LogicalId(i) == LogicalIds[i]

\* ------------------------------------------------------- recognised types
RESOURCE_TYPE == "Type"
SERVERLESS_FUNCTION == "AWS::Serverless::Function"
SERVERLESS_API == "AWS::Serverless::Api"
APIGATEWAY_METHOD == "AWS::ApiGateway::Method"
APIGATEWAY_STAGE == "AWS::ApiGateway::Stage"

SamApiProvider_TYPES == {SERVERLESS_FUNCTION, SERVERLESS_API}
CfnApiProvider_TYPES == {APIGATEWAY_METHOD, APIGATEWAY_STAGE}

SamApiProvider == "SamApiProvider"
CfnApiProvider == "CfnApiProvider"

\* ----------------------------------------------------------- the inputs
FnPostX == [Type |-> SERVERLESS_FUNCTION,
            Properties |-> [Path |-> "/x", Method |-> "POST"]]
SamApiParam == [Type |-> SERVERLESS_API,
                Properties |-> [StageName |-> RefParam("Stage")]]
SamApiDoc == [Type |-> SERVERLESS_API,
              Properties |-> [StageName |-> Lit("dev"), DefinitionUri |-> "swagger.yaml"]]
GwMethodPostX == [Type |-> APIGATEWAY_METHOD,
                  Properties |-> [Path |-> "/x", Method |-> "POST", Target |-> "F"]]
GwStage == [Type |-> APIGATEWAY_STAGE,
            Properties |-> [StageName |-> Lit("gw")]]
Bucket == [Type |-> "AWS::S3::Bucket"]
NoType == [Properties |-> [Path |-> "/y", Method |-> "GET"]]

ResourceUniverse ==
    {FnPostX, SamApiParam, SamApiDoc, GwMethodPostX, GwStage, Bucket, NoType}

SeqsUpTo(S, n) == UNION {[1..k -> S] : k \in 0..n}

\* A template either has a Resources entry or has none.
TemplatesUpTo(n) ==
    {[Resources |-> rs] : rs \in SeqsUpTo(ResourceUniverse, n)} \cup {EmptyDict}

Templates == TemplatesUpTo(MaxResources)
UseTemplates == TemplatesUpTo(MaxUseResources)
ConcTemplates == TemplatesUpTo(MaxConcResources)

\* What the caller may later turn its template_dict into.
LaterTemplates == {EmptyDict, [Resources |-> <<GwMethodPostX>>]}

Overrides == {EmptyDict, [Stage |-> "beta"]}
WorkingDirs == {None, "/app"}

\* ------------------------------------------------- template normalisation
\* SamBaseProvider.get_template: the normalised copy of the template, every
\* reference to an overridden parameter replaced by the override's value.
ResolveValue(val, parameter_overrides) ==
    IF val.kind = "ref" /\ val.v \in DOMAIN parameter_overrides
    THEN Lit(parameter_overrides[val.v])
    ELSE val

ResolveProperties(props, parameter_overrides) ==
    [k \in DOMAIN props |->
        IF k = "StageName" THEN ResolveValue(props[k], parameter_overrides) ELSE props[k]]

ResolveResource(resource, parameter_overrides) ==
    [k \in DOMAIN resource |->
        IF k = "Properties"
        THEN ResolveProperties(resource[k], parameter_overrides)
        ELSE resource[k]]

get_template(template_dict, parameter_overrides) ==
    [k \in DOMAIN template_dict |->
        [i \in DOMAIN template_dict[k] |->
            ResolveResource(template_dict[k][i], parameter_overrides)]]

\* ------------------------------------------------------------ ApiCollector
Route(path, method, function_name, kind) ==
    [path |-> path, method |-> method, function_name |-> function_name, kind |-> kind]

\* ApiCollector(): a collector with nothing recorded.  calls and finalized
\* log the calls made on it.
EmptyCollector ==
    [routes |-> <<>>, stage_name |-> NoValue, stage_variables |-> {},
     binary_media_types |-> {}, cors |-> NoValue, calls |-> <<>>, finalized |-> 0]

HasRoute(coll, route) ==
    \E i \in 1..Len(coll.routes) :
        /\ coll.routes[i].path = route.path
        /\ coll.routes[i].method = route.method

add_route(coll, route) ==
    [coll EXCEPT !.routes = IF HasRoute(coll, route) THEN @ ELSE Append(@, route),
                 !.calls = Append(@, "add_route")]

set_stage_name(coll, stage_name) ==
    [coll EXCEPT !.stage_name = stage_name, !.calls = Append(@, "set_properties")]

get_api(coll) ==
    [routes |-> coll.routes, stage_name |-> coll.stage_name,
     stage_variables |-> coll.stage_variables,
     binary_media_types |-> coll.binary_media_types, cors |-> coll.cors]

\* -------------------------------------------------------------- strategies
\* Whether the route-definition document a resource names can be read: a
\* relative path resolves only against a working directory.
Readable(cwd, uri) == cwd # None

HasRouteFields(props) == {"Path", "Method"} \subseteq DOMAIN props

\* One resource under SamApiProvider: a function's HTTP event gives a route
\* to that function; a Serverless::Api gives the stage, after its referenced
\* document, if any, has been read.
SamVisit(resource, i, coll, cwd) ==
    LET type == get(resource, RESOURCE_TYPE, None)
        props == get(resource, "Properties", EmptyDict)
    IN  IF type = SERVERLESS_FUNCTION /\ HasRouteFields(props)
        THEN [raised |-> FALSE,
              collector |-> add_route(coll, Route(props.Path, props.Method, LogicalId(i), "Api"))]
        ELSE IF type = SERVERLESS_API
        THEN IF "DefinitionUri" \in DOMAIN props /\ ~Readable(cwd, props.DefinitionUri)
             THEN [raised |-> TRUE, collector |-> coll]
             ELSE IF "StageName" \in DOMAIN props
             THEN [raised |-> FALSE, collector |-> set_stage_name(coll, props.StageName)]
             ELSE [raised |-> FALSE, collector |-> coll]
        ELSE [raised |-> FALSE, collector |-> coll]

\* One resource under CfnApiProvider: a gateway method gives a route to the
\* function its integration names; a gateway stage gives the stage.
CfnVisit(resource, i, coll, cwd) ==
    LET type == get(resource, RESOURCE_TYPE, None)
        props == get(resource, "Properties", EmptyDict)
    IN  IF type = APIGATEWAY_METHOD /\ HasRouteFields(props) /\ "Target" \in DOMAIN props
        THEN [raised |-> FALSE,
              collector |-> add_route(coll, Route(props.Path, props.Method, props.Target, "Cfn"))]
        ELSE IF type = APIGATEWAY_STAGE /\ "StageName" \in DOMAIN props
        THEN [raised |-> FALSE, collector |-> set_stage_name(coll, props.StageName)]
        ELSE [raised |-> FALSE, collector |-> coll]

RECURSIVE extract_from(_, _, _, _, _)
extract_from(cls, resources, i, coll, cwd) ==
    IF i > Len(resources) THEN [raised |-> FALSE, collector |-> coll]
    ELSE LET r == IF cls = SamApiProvider
                  THEN SamVisit(resources[i], i, coll, cwd)
                  ELSE CfnVisit(resources[i], i, coll, cwd)
         IN  IF r.raised THEN r
             ELSE extract_from(cls, resources, i + 1, r.collector, cwd)

\* provider.extract_resources(resources, collector, cwd=cwd)
extract_resources(cls, resources, coll, cwd) == extract_from(cls, resources, 1, coll, cwd)

\* ------------------------------------------------------ find_api_provider
RECURSIVE find_from(_, _)
find_from(resources, i) ==
    IF i > Len(resources) THEN SamApiProvider
    ELSE LET resource == resources[i] IN
         IF get(resource, RESOURCE_TYPE, None) \in SamApiProvider_TYPES THEN SamApiProvider
         ELSE IF get(resource, RESOURCE_TYPE, None) \in CfnApiProvider_TYPES THEN CfnApiProvider
         ELSE find_from(resources, i + 1)

\* Mutants of find_api_provider.
RECURSIVE find_default_from(_, _, _)
find_default_from(resources, i, default) ==
    IF i > Len(resources) THEN default
    ELSE LET resource == resources[i] IN
         IF get(resource, RESOURCE_TYPE, None) \in SamApiProvider_TYPES THEN SamApiProvider
         ELSE IF get(resource, RESOURCE_TYPE, None) \in CfnApiProvider_TYPES THEN CfnApiProvider
         ELSE find_default_from(resources, i + 1, default)

\* Every resource is tested for the SAM types before any is tested for the
\* CloudFormation types.
find_api_provider_sam_first(resources) ==
    [ret |-> IF \E i \in 1..Len(resources) :
                    get(resources[i], RESOURCE_TYPE, None) \in SamApiProvider_TYPES
             THEN SamApiProvider
             ELSE find_from(resources, 1),
     resources |-> resources]

\* The fall-through returns the other provider.
find_api_provider_default_cfn(resources) ==
    [ret |-> find_default_from(resources, 1, CfnApiProvider), resources |-> resources]

\* The loop consumes the mapping as it iterates (popitem in place of items).
find_api_provider_consuming(resources) ==
    [ret |-> find_from(resources, 1),
     resources |-> IF Len(resources) = 0 THEN resources ELSE Tail(resources)]

\* ApiProvider.find_api_provider(resources): the class it returns an instance
\* of, and the mapping as the call leaves it.
find_api_provider(resources) ==
    [ret |-> find_from(resources, 1), resources |-> resources]

\* ------------------------------------------------------------- the state
VARIABLES
    pc,          \* where each construction stands
    args,        \* the arguments ApiProvider(...) was called with
    caller,      \* the caller's template_dict as it is now
    self,        \* the ApiProvider's attributes that are set
    frame,       \* the locals of _extract_api that are set
    collectors,  \* the ApiCollector objects, by identity
    nextId,      \* the next object identity
    ran,         \* log: the extract_resources calls made
    yielded,     \* log: what each get_all call yielded
    found        \* log: what later find_api_provider calls returned

vars == <<pc, args, caller, self, frame, collectors, nextId, ran, yielded, found>>

MaxFindAgain == 1

Init ==
    /\ pc = [p \in Passes |-> "idle"]
    /\ args = [p \in Passes |-> EmptyDict]
    /\ caller = [p \in Passes |-> EmptyDict]
    /\ self = [p \in Passes |-> EmptyDict]
    /\ frame = [p \in Passes |-> EmptyDict]
    /\ collectors = EmptyDict
    /\ nextId = 1
    /\ ran = [p \in Passes |-> <<>>]
    /\ yielded = [p \in Passes |-> <<>>]
    /\ found = [p \in Passes |-> <<>>]

\* The parameter overrides are not handed on to get_template.
init_template_no_overrides(template_dict, parameter_overrides) ==
    get_template(template_dict, EmptyDict)

\* self.template_dict = SamBaseProvider.get_template(template_dict, parameter_overrides)
init_template(template_dict, parameter_overrides) ==
    get_template(template_dict, parameter_overrides)

\* self.resources = self.template_dict.get("Resources", {})
init_resources(template_dict) == get(template_dict, "Resources", <<>>)

\* ApiProvider(template_dict, parameter_overrides, cwd), up to the call of
\* _extract_api.
Construct(p, template_dict, parameter_overrides, cwd) ==
    /\ LET normalized == init_template(template_dict, parameter_overrides) IN
       self' = [self EXCEPT ![p] = [template_dict |-> normalized,
                                    resources |-> init_resources(normalized),
                                    cwd |-> cwd]]
    /\ args' = [args EXCEPT ![p] = [template_dict |-> template_dict,
                                    parameter_overrides |-> parameter_overrides,
                                    cwd |-> cwd]]
    /\ caller' = [caller EXCEPT ![p] = template_dict]
    /\ pc' = [pc EXCEPT ![p] = "extract_api"]
    /\ UNCHANGED <<frame, collectors, nextId, ran, yielded, found>>

\* A provider is built from one of the given templates, parameter overrides
\* and working directories.
New(p, templates, overrides, dirs) ==
    /\ pc[p] = "idle"
    /\ \E t \in templates, po \in overrides, c \in dirs : Construct(p, t, po, c)

\* One collector object serves every call.
new_collector_singleton(colls, id) ==
    IF DOMAIN colls # {}
    THEN [id |-> CHOOSE i \in DOMAIN colls : TRUE, collectors |-> colls]
    ELSE [id |-> id, collectors |-> (id :> EmptyCollector) @@ colls]

\* collector = ApiCollector()
new_collector(colls, id) ==
    [id |-> id, collectors |-> (id :> EmptyCollector) @@ colls]

NewCollector(p) ==
    /\ pc[p] = "extract_api"
    /\ LET made == new_collector(collectors, nextId) IN
        /\ frame' = [frame EXCEPT ![p] = [collector |-> made.id]]
        /\ collectors' = made.collectors
    /\ nextId' = nextId + 1
    /\ pc' = [pc EXCEPT ![p] = "find"]
    /\ UNCHANGED <<args, caller, self, ran, yielded, found>>

\* provider = self.find_api_provider(resources)
Find(p) ==
    /\ pc[p] = "find"
    /\ LET call == find_api_provider(self[p].resources) IN
        /\ frame' = [frame EXCEPT ![p] = [provider |-> [cls |-> call.ret, id |-> nextId]] @@ @]
        /\ self' = [self EXCEPT ![p].resources = call.resources]
    /\ nextId' = nextId + 1
    /\ pc' = [pc EXCEPT ![p] = "extract_resources"]
    /\ UNCHANGED <<args, caller, collectors, ran, yielded, found>>

\* Both providers are run, the found one first.
run_both_providers(cls, resources, coll, cwd) ==
    LET first == extract_resources(cls, resources, coll, cwd)
        other == IF cls = SamApiProvider THEN CfnApiProvider ELSE SamApiProvider
        second == extract_resources(other, resources, first.collector, cwd)
    IN  IF first.raised
        THEN [raised |-> TRUE, collector |-> first.collector,
              ran |-> <<[cls |-> cls, resources |-> resources]>>]
        ELSE [raised |-> second.raised, collector |-> second.collector,
              ran |-> <<[cls |-> cls, resources |-> resources],
                        [cls |-> other, resources |-> resources]>>]

\* A failure of the provider is caught and dropped.
run_provider_swallowing(cls, resources, coll, cwd) ==
    LET call == extract_resources(cls, resources, coll, cwd)
    IN  [raised |-> FALSE, collector |-> call.collector,
         ran |-> <<[cls |-> cls, resources |-> resources]>>]

\* provider.extract_resources(resources, collector, cwd=self.cwd)
run_provider(cls, resources, coll, cwd) ==
    LET call == extract_resources(cls, resources, coll, cwd)
    IN  [raised |-> call.raised, collector |-> call.collector,
         ran |-> <<[cls |-> cls, resources |-> resources]>>]

ExtractResources(p) ==
    /\ pc[p] = "extract_resources"
    /\ LET id == frame[p].collector
           call == run_provider(frame[p].provider.cls, self[p].resources,
                                collectors[id], self[p].cwd)
       IN /\ collectors' = [collectors EXCEPT ![id] = call.collector]
          /\ ran' = [ran EXCEPT ![p] = @ \o call.ran]
          /\ pc' = [pc EXCEPT ![p] = IF call.raised THEN "raised" ELSE "get_api"]
    /\ UNCHANGED <<args, caller, self, frame, nextId, yielded, found>>

\* return collector.get_api(); self.api = ...; self.routes = self.api.routes
Finish(p) ==
    /\ pc[p] = "get_api"
    /\ LET id == frame[p].collector
           api == get_api(collectors[id])
       IN /\ collectors' = [collectors EXCEPT ![id].finalized = @ + 1]
          /\ self' = [self EXCEPT ![p] = [api |-> api, routes |-> api.routes] @@ @]
    /\ pc' = [pc EXCEPT ![p] = "ready"]
    /\ UNCHANGED <<args, caller, frame, nextId, ran, yielded, found>>

\* get_all yields nothing for an Api without routes.
get_all_nonempty(p) ==
    IF Len(self[p].api.routes) = 0 THEN <<>> ELSE <<self[p].api>>

\* get_all extracts again, from the caller's template as it is now.
get_all_extracting(p) ==
    LET resources == init_resources(init_template(caller[p], args[p].parameter_overrides))
        cls == find_api_provider(resources).ret
    IN  <<get_api(extract_resources(cls, resources, EmptyCollector, self[p].cwd).collector)>>

\* get_all(): the sequence the generator yields.
get_all(p) == <<self[p].api>>

GetAll(p) ==
    /\ pc[p] = "ready"
    /\ Len(yielded[p]) < MaxGetAll
    /\ yielded' = [yielded EXCEPT ![p] =
            Append(@, [changed |-> caller[p] # args[p].template_dict, out |-> get_all(p)])]
    /\ UNCHANGED <<pc, args, caller, self, frame, collectors, nextId, ran, found>>

\* The caller changes its template_dict after the provider was built.
ChangeTemplate(p) ==
    /\ pc[p] = "ready"
    /\ \E template_dict \in LaterTemplates \ {caller[p]} :
          caller' = [caller EXCEPT ![p] = template_dict]
    /\ UNCHANGED <<pc, args, self, frame, collectors, nextId, ran, yielded, found>>

\* ApiProvider.find_api_provider(provider.resources), called again.
FindAgain(p) ==
    /\ pc[p] = "ready"
    /\ Len(found[p]) < MaxFindAgain
    /\ LET call == find_api_provider(self[p].resources) IN
        /\ found' = [found EXCEPT ![p] = Append(@, [cls |-> call.ret, id |-> nextId])]
        /\ self' = [self EXCEPT ![p].resources = call.resources]
    /\ nextId' = nextId + 1
    /\ UNCHANGED <<pc, args, caller, frame, collectors, ran, yielded>>

\* One provider built from any template.
Next ==
    \/ New("p1", Templates, Overrides, WorkingDirs)
    \/ NewCollector("p1")
    \/ Find("p1")
    \/ ExtractResources("p1")
    \/ Finish("p1")

Spec == Init /\ [][Next]_vars

\* One provider in use after it was built: the caller changes its template,
\* asks for the Api, runs find_api_provider again.
NextUse ==
    \/ New("p1", UseTemplates, Overrides, WorkingDirs)
    \/ NewCollector("p1")
    \/ Find("p1")
    \/ ExtractResources("p1")
    \/ Finish("p1")
    \/ GetAll("p1")
    \/ ChangeTemplate("p1")
    \/ FindAgain("p1")

SpecUse == Init /\ [][NextUse]_vars

\* Several providers built at once, their steps interleaved.
NextConc ==
    \E p \in Passes :
        \/ New(p, ConcTemplates, {[Stage |-> "beta"]}, {None})
        \/ NewCollector(p)
        \/ Find(p)
        \/ ExtractResources(p)
        \/ Finish(p)
        \/ GetAll(p)

SpecConc == Init /\ [][NextConc]_vars

\* ---------------------------------------------------------------- claims
TypeOf(resource) == get(resource, RESOURCE_TYPE, None)
Recognised(resource) == TypeOf(resource) \in SamApiProvider_TYPES \cup CfnApiProvider_TYPES
Selected(p) == "provider" \in DOMAIN frame[p]
AfterFind(p) == pc[p] \in {"extract_resources", "get_api", "ready", "raised"}
AfterExtract(p) == pc[p] \in {"get_api", "ready", "raised"}

\* C1: the provider found is the one of the first resource, in the mapping's
\* order, whose Type is in either TYPES list, whatever follows it.
C1_FirstMatchWins ==
    \A p \in Passes : Selected(p) =>
        LET resources == self[p].resources IN
        \A i \in 1..Len(resources) :
            (Recognised(resources[i]) /\ \A j \in 1..(i - 1) : ~Recognised(resources[j]))
            => frame[p].provider.cls =
                  (IF TypeOf(resources[i]) \in SamApiProvider_TYPES
                   THEN SamApiProvider ELSE CfnApiProvider)

\* A CloudFormation resource came first, a SAM resource later, and the
\* CloudFormation provider was found.
C1_Witness ==
    /\ Selected("p1")
    /\ Len(self["p1"].resources) >= 2
    /\ TypeOf(self["p1"].resources[1]) \in CfnApiProvider_TYPES
    /\ TypeOf(self["p1"].resources[2]) \in SamApiProvider_TYPES
    /\ frame["p1"].provider.cls = CfnApiProvider

\* C2: with no resource of a recognised Type (none at all, Type absent, Type
\* unknown) the SAM provider is found and the construction does not fail.
C2_DefaultIsSam ==
    \A p \in Passes :
        (AfterFind(p) /\ \A i \in 1..Len(self[p].resources) : ~Recognised(self[p].resources[i]))
        => /\ frame[p].provider.cls = SamApiProvider
           /\ pc[p] # "raised"

C2_Witness ==
    /\ pc["p1"] = "ready"
    /\ self["p1"].resources = <<NoType, Bucket>>
    /\ frame["p1"].provider.cls = SamApiProvider

ApiFields == {"routes", "stage_name", "stage_variables", "binary_media_types", "cors"}

\* C3: every get_all call yields exactly one value, an Api, also when that
\* Api has no routes.
C3_GetAllYieldsOneApi ==
    \A p \in Passes : \A k \in 1..Len(yielded[p]) :
        /\ Len(yielded[p][k].out) = 1
        /\ DOMAIN yielded[p][k].out[1] = ApiFields

C3_Witness ==
    /\ Len(yielded["p1"]) = MaxGetAll
    /\ Len(yielded["p1"][1].out) = 1
    /\ yielded["p1"][1].out[1].routes = <<>>

\* C4: an empty Resources mapping, or none, builds without error an Api with
\* no routes, no stage name, no stage variables and no binary media types;
\* the SAM provider is found and makes no call on the fresh collector.
C4_EmptyTemplateGivesEmptyApi ==
    \A p \in Passes : (pc[p] # "idle" /\ Len(self[p].resources) = 0) =>
        /\ pc[p] # "raised"
        /\ Selected(p) => frame[p].provider.cls = SamApiProvider
        /\ "collector" \in DOMAIN frame[p] => collectors[frame[p].collector].calls = <<>>
        /\ pc[p] = "ready" =>
            /\ self[p].api = [routes |-> <<>>, stage_name |-> NoValue, stage_variables |-> {},
                              binary_media_types |-> {}, cors |-> NoValue]
            /\ self[p].routes = <<>>
        /\ \A k \in 1..Len(yielded[p]) : yielded[p][k].out = <<self[p].api>>

C4_Witness ==
    /\ pc["p1"] = "ready"
    /\ args["p1"].template_dict = [Resources |-> <<>>]
    /\ self["p1"].api.routes = <<>>
    /\ Len(yielded["p1"]) = 1

\* C5: find_api_provider changes nothing but the instance it returns: the
\* mapping and all other state are as before the call, and a second call on
\* the mapping returns the class the first call returned.
C5_FindIsPure ==
    [][\A p \in Passes :
        ((pc[p] = "find" /\ pc'[p] # "find") \/ found'[p] # found[p]) =>
            /\ self' = self
            /\ collectors' = collectors
            /\ UNCHANGED <<args, caller, ran, yielded>>
            /\ self'[p].resources = init_resources(self'[p].template_dict)
            /\ \A k \in 1..Len(found'[p]) : found'[p][k].cls = frame'[p].provider.cls
      ]_vars

C5_Witness ==
    /\ Len(found["p1"]) = MaxFindAgain
    /\ Len(self["p1"].resources) = MaxUseResources
    /\ TypeOf(self["p1"].resources[1]) \in CfnApiProvider_TYPES
    /\ found["p1"][1].cls = CfnApiProvider

C7_ApiFixedAtConstruction ==
    [][\A p \in Passes : pc[p] = "ready" =>
        /\ self'[p].api = self[p].api
        /\ self'[p].routes = self[p].routes
        /\ ran'[p] = ran[p]
        /\ collectors' = collectors
        /\ \A k \in 1..Len(yielded'[p]) : yielded'[p][k].out = <<self[p].api>>
      ]_vars

\* get_all was called after the caller had emptied its template, on a
\* provider whose Api has a route.
C7_Witness ==
    /\ pc["p1"] = "ready"
    /\ Len(self["p1"].api.routes) = 1
    /\ caller["p1"] = EmptyDict
    /\ Len(yielded["p1"]) = MaxGetAll
    /\ yielded["p1"][MaxGetAll].changed

DeclaredRoutes(cls, resources) ==
    IF cls = SamApiProvider
    THEN {Route(resources[i].Properties.Path, resources[i].Properties.Method, LogicalId(i), "Api") :
            i \in {j \in 1..Len(resources) :
                    /\ TypeOf(resources[j]) = SERVERLESS_FUNCTION
                    /\ HasRouteFields(get(resources[j], "Properties", EmptyDict))}}
    ELSE {Route(resources[i].Properties.Path, resources[i].Properties.Method,
                resources[i].Properties.Target, "Cfn") :
            i \in {j \in 1..Len(resources) :
                    /\ TypeOf(resources[j]) = APIGATEWAY_METHOD
                    /\ {"Path", "Method", "Target"} \subseteq
                          DOMAIN get(resources[j], "Properties", EmptyDict)}}

DeclaredStages(cls, resources) ==
    {resources[i].Properties.StageName :
        i \in {j \in 1..Len(resources) :
                /\ TypeOf(resources[j]) =
                      (IF cls = SamApiProvider THEN SERVERLESS_API ELSE APIGATEWAY_STAGE)
                /\ "StageName" \in DOMAIN get(resources[j], "Properties", EmptyDict)}}

\* C8: a construction runs one provider, the one found, once, over the whole
\* mapping; every route and the stage name in the collector were declared by
\* a resource of that provider's own types.
C8_OnlyTheFoundProviderRuns ==
    \A p \in Passes :
        /\ pc[p] \in {"extract_api", "find", "extract_resources"} => ran[p] = <<>>
        /\ AfterExtract(p) =>
            LET cls == frame[p].provider.cls
                coll == collectors[frame[p].collector]
            IN  /\ ran[p] = <<[cls |-> cls, resources |-> self[p].resources]>>
                /\ \A k \in 1..Len(coll.routes) :
                      coll.routes[k] \in DeclaredRoutes(cls, self[p].resources)
                /\ coll.stage_name \in DeclaredStages(cls, self[p].resources) \cup {NoValue}

\* The CloudFormation provider ran over a template that also holds a SAM
\* function and a SAM Api.
C8_Witness ==
    /\ pc["p1"] = "ready"
    /\ frame["p1"].provider.cls = CfnApiProvider
    /\ \E i \in 1..Len(self["p1"].resources) :
          TypeOf(self["p1"].resources[i]) = SERVERLESS_FUNCTION
    /\ \E i \in 1..Len(self["p1"].resources) :
          TypeOf(self["p1"].resources[i]) = SERVERLESS_API

Raises(p) ==
    extract_resources(frame[p].provider.cls, self[p].resources, EmptyCollector, self[p].cwd).raised

\* C9: when the found provider's extract_resources raises, the construction
\* fails: get_api is never called, no api or routes attribute is set, no Api
\* is yielded.
C9_FailurePropagates ==
    \A p \in Passes : AfterExtract(p) =>
        /\ Raises(p) <=> pc[p] = "raised"
        /\ pc[p] = "raised" =>
            /\ "api" \notin DOMAIN self[p]
            /\ "routes" \notin DOMAIN self[p]
            /\ collectors[frame[p].collector].finalized = 0
            /\ yielded[p] = <<>>

\* The failure came after a route had been collected.
C9_Witness ==
    /\ pc["p1"] = "raised"
    /\ Len(collectors[frame["p1"].collector].routes) = 1

OwnCollector(p) ==
    extract_resources(frame[p].provider.cls, self[p].resources, EmptyCollector, self[p].cwd).collector

\* C10: constructions whose steps interleave share no collector and no
\* provider instance, and each one's collector and Api hold what its own
\* provider collected from its own resources, no more and no less.
C10_PassesAreIndependent ==
    \A p \in Passes :
        /\ \A q \in Passes \ {p} :
            /\ ("collector" \in DOMAIN frame[p] /\ "collector" \in DOMAIN frame[q])
                  => frame[p].collector # frame[q].collector
            /\ (Selected(p) /\ Selected(q)) => frame[p].provider.id # frame[q].provider.id
        /\ pc[p] \in {"find", "extract_resources"} =>
              collectors[frame[p].collector] = EmptyCollector
        /\ pc[p] \in {"get_api", "raised"} =>
              collectors[frame[p].collector] = OwnCollector(p)
        /\ pc[p] = "ready" => self[p].api = get_api(OwnCollector(p))

\* Two constructions are both between extraction and get_api, each with its
\* own route in its own collector.
C10_Witness ==
    /\ pc["p1"] = "get_api"
    /\ pc["p2"] = "get_api"
    /\ Len(collectors[frame["p1"].collector].routes) = 1
    /\ Len(collectors[frame["p2"].collector].routes) = 1
    /\ collectors[frame["p1"].collector].routes # collectors[frame["p2"].collector].routes

====
